---------------------------- MODULE Spec2Model ----------------------------
(***************************************************************************)
(* Model of lamecs (src/lamecs.hpp): the paginated sparse_set<C> and the   *)
(* registry built on it (entity id allocator, component pools, entity      *)
(* bitsets, entity groups, view).                                          *)
(*                                                                         *)
(* Conventions                                                             *)
(*  - C++ indices are 0-based and are kept 0-based in the stored values;   *)
(*    a TLA+ sequence is read at index + 1.                                *)
(*  - A component_bitset is the set of its set bit positions.              *)
(*  - size_t / unsigned values do not fit TLC's 32-bit integers:           *)
(*    tombstone (SIZE_MAX) is modelled as -1 and null_entity (UINT_MAX)    *)
(*    as the largest TLC integer; only equality with them and the page     *)
(*    arithmetic on null_entity are used.                                  *)
(*  - MAX_ENTITY_COUNT, ENTITY_CHUNK_SIZE, MAX_COMPONENT_COUNT and         *)
(*    SPARSE_PAGINATION_CHUNK_SIZE are the program's constants scaled down *)
(*    so that chunk growth, exhaustion of the ids, the component limit and *)
(*    page allocation all happen within the explored runs.                 *)
(*  - An out-of-range index into a std::vector is undefined behaviour.     *)
(*    Two outcomes are modelled: the access traps (a hardened standard     *)
(*    library: status "trapped"), or it touches the vector's reserved      *)
(*    storage past size() (push_to_dense reserves DENSE_SET_CHUNK_SIZE =   *)
(*    3200 slots, far more than any explored size).  A write there leaves  *)
(*    the live elements alone; a read yields a value chosen freely.        *)
(***************************************************************************)
EXTENDS Integers, Sequences, FiniteSets, TLC

\* ------------------------------------------------------------ constants
tombstone == -1
null_entity == 2147483647
MAX_ENTITY_COUNT == 3
ENTITY_CHUNK_SIZE == 2
MAX_COMPONENT_COUNT == 2
SPARSE_PAGINATION_CHUNK_SIZE == 2

\* ------------------------------------------------------------ bounds
\* number of registry calls in a run, of any caller and of one passing alive ids only
MaxCalls == 4
MaxAliveCalls == 7
\* number of calls on the sparse set exercised on its own
MaxSetCalls == 5
\* number of registry calls in a run that also calls register_component
MaxRegisterCalls == 5

\* the component types of example.cpp, which the callers emplace and remove
Components == {"pos", "vel"}
\* every component type (typeid name) a caller may register
ComponentTypes == Components \cup {"acc", "mass"}
\* the component values a caller passes
Values == {"a", "b"}
\* ids a caller may pass: every id the allocator can issue, and null_entity
EntityIds == 0..(MAX_ENTITY_COUNT - 1)
CallIds == EntityIds \cup {null_entity}

Last(s) == s[Len(s)]
Front(s) == SubSeq(s, 1, Len(s) - 1)
Range(s) == {s[i] : i \in DOMAIN s}
Put(f, k, v) == [x \in (DOMAIN f) \cup {k} |-> IF x = k THEN v ELSE f[x]]
Drop(f, k) == [x \in (DOMAIN f) \ {k} |-> f[x]]

\* ------------------------------------------------------------ sparse_set<C>
\* A sparse set is a record of its three vectors.
sparse_set == [sparse_arr_ |-> <<>>, dense_arr_ |-> <<>>, dense_to_sparse_arr_ |-> <<>>]

get_dense_index(s, id) ==
    LET page == id \div SPARSE_PAGINATION_CHUNK_SIZE
        idx  == id % SPARSE_PAGINATION_CHUNK_SIZE
    IN  IF page < Len(s.sparse_arr_)
        THEN IF idx < Len(s.sparse_arr_[page + 1])
             THEN s.sparse_arr_[page + 1][idx + 1]
             ELSE tombstone
        ELSE tombstone

set_dense_index(s, id, item) ==
    LET page == id \div SPARSE_PAGINATION_CHUNK_SIZE
        idx  == id % SPARSE_PAGINATION_CHUNK_SIZE
        sp   == s.sparse_arr_
        \* sparse_arr_.resize(page + 1): the new pages are empty vectors
        sp1  == IF page >= Len(sp)
                THEN sp \o [i \in 1..(page + 1 - Len(sp)) |-> <<>>]
                ELSE sp
        pg   == sp1[page + 1]
        \* sparse_arr_[page].resize(SPARSE_PAGINATION_CHUNK_SIZE, tombstone)
        pg1  == IF idx >= Len(pg)
                THEN pg \o [i \in 1..(SPARSE_PAGINATION_CHUNK_SIZE - Len(pg)) |-> tombstone]
                ELSE pg
    IN  [s EXCEPT !.sparse_arr_ = [sp1 EXCEPT ![page + 1] = [pg1 EXCEPT ![idx + 1] = item]]]

\* push_to_dense only reserves storage and appends.
push_to_dense(s, item) == [s EXCEPT !.dense_arr_ = Append(@, item)]

\* The owner array receives dense_arr_.size() taken after the append, not id.
push(s, id, item) ==
    LET s1 == set_dense_index(s, id, Len(s.dense_arr_))
        s2 == push_to_dense(s1, item)
    IN  [s2 EXCEPT !.dense_to_sparse_arr_ = Append(@, Len(s2.dense_arr_))]

\* set and remove return [set, oob]: the sparse set afterwards, and whether an
\* index at or past size() was used on dense_arr_ / dense_to_sparse_arr_.
set(s, id, item) ==
    LET index == get_dense_index(s, id)
    IN  IF index = tombstone
        THEN [set |-> push(s, id, item), oob |-> FALSE]
        ELSE IF index < Len(s.dense_arr_)
        THEN [set |-> [s EXCEPT !.dense_arr_[index + 1] = item,
                                !.dense_to_sparse_arr_[index + 1] = id],
              oob |-> FALSE]
        ELSE [set |-> s, oob |-> TRUE]

\* std::swap(v[i], v.back()) followed by v.pop_back(), i a valid 1-based place
swap_pop(v, i) == Front([k \in DOMAIN v |-> IF k = i THEN v[Len(v)]
                                            ELSE IF k = Len(v) THEN v[i] ELSE v[k]])

remove(s, id) ==
    LET deleted_dense_index == get_dense_index(s, id)
        n  == Len(s.dense_arr_)
        s1 == set_dense_index(s, id, tombstone)
        s2 == set_dense_index(s1, Last(s.dense_to_sparse_arr_), deleted_dense_index)
    IN  IF deleted_dense_index = tombstone \/ n = 0
        THEN [set |-> s, oob |-> FALSE]
        ELSE IF deleted_dense_index < n
        THEN [set |-> [s2 EXCEPT
                  !.dense_arr_ = swap_pop(@, deleted_dense_index + 1),
                  !.dense_to_sparse_arr_ = swap_pop(@, deleted_dense_index + 1)],
              oob |-> FALSE]
        \* the swap exchanges back() with a slot past size(); pop_back drops it
        ELSE [set |-> [s2 EXCEPT !.dense_arr_ = Front(@),
                                 !.dense_to_sparse_arr_ = Front(@)],
              oob |-> TRUE]

contains(s, id) == get_dense_index(s, id) # tombstone

empty(s) == Len(s.dense_arr_) = 0

data(s) == s.dense_arr_

\* operator[]: "assert" when LAMECS_ASSERT fires, "oob" when the index is at or
\* past size(), else the slot's value.
subscript(s, id) ==
    LET idx == get_dense_index(s, id)
    IN  IF idx = tombstone THEN [kind |-> "assert"]
        ELSE IF idx >= Len(s.dense_arr_) THEN [kind |-> "oob"]
        ELSE [kind |-> "value", value |-> s.dense_arr_[idx + 1], slot |-> idx + 1]

\* ------------------------------------------------------------ registry
VARIABLES
    available_entity_ids_,    \* std::queue<entity_id>
    entity_limit_,            \* size_t
    component_bit_positions_, \* component type -> bit position, tombstone when absent
    component_pools_,         \* vector of sparse sets, indexed by bit position
    enitity_groups_,          \* component_bitset -> sparse_set<entity_id>
    component_bitsets_,       \* sparse_set<component_bitset>
    status,                   \* "running" | "aborted" (LAMECS_ASSERT) | "trapped" (out-of-range access)
    alive,                    \* ids returned by create_entity and not since passed to remove_entity
    issued,                   \* what create_entity has returned so far, in order
    held,                     \* per id and type: the value last emplaced, "removed" after remove<T>, "none"
    calls,                    \* number of calls made
    pc,                       \* the statement of example.cpp's main that runs next
    sset,                     \* a sparse_set<C> used on its own
    shadow                    \* per id: the value of its last set on sset, "absent" after remove

vars == <<available_entity_ids_, entity_limit_, component_bit_positions_, component_pools_,
          enitity_groups_, component_bitsets_, status, alive, issued, held, calls,
          pc, sset, shadow>>

\* The registry's fields as one record, for the operators below.
registry == [available_entity_ids_    |-> available_entity_ids_,
             entity_limit_            |-> entity_limit_,
             component_bit_positions_ |-> component_bit_positions_,
             component_pools_         |-> component_pools_,
             enitity_groups_          |-> enitity_groups_,
             component_bitsets_       |-> component_bitsets_]

Min(a, b) == IF a < b THEN a ELSE b

get_component_position(r, C) == r.component_bit_positions_[C]

contains_entity(r, id) == contains(r.component_bitsets_, id)

\* [ok, r]: ok is FALSE when entity_limit_ already is MAX_ENTITY_COUNT
generate_available_entity_chuck(r) ==
    LET new_limit == Min(r.entity_limit_ + ENTITY_CHUNK_SIZE, MAX_ENTITY_COUNT)
    IN  IF r.entity_limit_ = MAX_ENTITY_COUNT
        THEN [ok |-> FALSE, r |-> r]
        ELSE [ok |-> TRUE,
              r  |-> [r EXCEPT
                        !.available_entity_ids_ =
                            @ \o [k \in 1..(new_limit - r.entity_limit_) |-> r.entity_limit_ + k - 1],
                        !.entity_limit_ = new_limit]]

\* create_entity taking the id queued last instead of the one at the front
create_entity_lifo(r) ==
    LET g  == generate_available_entity_chuck(r)
        r1 == IF r.available_entity_ids_ = <<>> THEN g.r ELSE r
    IN  IF r.available_entity_ids_ = <<>> /\ ~g.ok
        THEN [r |-> r, ret |-> null_entity]
        ELSE [r |-> [r1 EXCEPT !.available_entity_ids_ = Front(@)],
              ret |-> Last(r1.available_entity_ids_)]

\* [r, ret]
create_entity(r) ==
    LET g  == generate_available_entity_chuck(r)
        r1 == IF r.available_entity_ids_ = <<>> THEN g.r ELSE r
    IN  IF r.available_entity_ids_ = <<>> /\ ~g.ok
        THEN [r |-> r, ret |-> null_entity]
        ELSE [r |-> [r1 EXCEPT !.available_entity_ids_ = Tail(@)],
              ret |-> Head(r1.available_entity_ids_)]

\* [r, assert]: the map's size is the number of types that have a position
register_component(r, C) ==
    LET size == Cardinality({T \in ComponentTypes : r.component_bit_positions_[T] # tombstone})
    IN  IF size > MAX_COMPONENT_COUNT
        THEN [r |-> r, assert |-> TRUE]
        ELSE [r |-> [r EXCEPT !.component_bit_positions_[C] = Len(r.component_pools_),
                              !.component_pools_ = Append(@, sparse_set)],
              assert |-> FALSE]

\* [r, assert]: the registry once C's pool can be looked up
get_component_pool(r, C, register_when_not_found) ==
    IF get_component_position(r, C) = tombstone
    THEN IF ~register_when_not_found
         THEN [r |-> r, assert |-> TRUE]
         ELSE register_component(r, C)
    ELSE [r |-> r, assert |-> FALSE]

\* remove_entity_from_group without the erase of a group that became empty
remove_entity_from_group_keep(groups, bitset, id) ==
    LET group == IF bitset \in DOMAIN groups THEN groups[bitset] ELSE sparse_set
        rm    == remove(group, id)
    IN  [groups |-> Put(groups, bitset, rm.set), oob |-> rm.oob]

\* [groups, oob]
remove_entity_from_group(groups, bitset, id) ==
    LET group == IF bitset \in DOMAIN groups THEN groups[bitset] ELSE sparse_set
        rm    == remove(group, id)
    IN  [groups |-> IF empty(rm.set) THEN Drop(groups, bitset) ELSE Put(groups, bitset, rm.set),
         oob    |-> rm.oob]

add_entity_to_group(groups, bitset, id) ==
    LET group == IF bitset \in DOMAIN groups THEN groups[bitset] ELSE sparse_set
    IN  Put(groups, bitset, push(group, id, id))

\* [r, ref]: ref is operator[]'s result on the bitset store
get_component_bitset(r, id, create_when_not_found) ==
    LET r1 == IF ~contains_entity(r, id) /\ create_when_not_found
              THEN [r EXCEPT !.component_bitsets_ = push(@, id, {})]
              ELSE r
    IN  [r |-> r1, ref |-> subscript(r1.component_bitsets_, id)]

\* set_bitset_bit on a bitset value: [bitset, assert, oob]
set_bitset_bit(r, C, bitset, value) ==
    LET bitset_position == get_component_position(r, C)
    IN  IF bitset_position = tombstone
        THEN [bitset |-> bitset, assert |-> TRUE, oob |-> FALSE]
        ELSE IF bitset_position >= MAX_COMPONENT_COUNT
        THEN [bitset |-> bitset, assert |-> FALSE, oob |-> TRUE]
        ELSE [bitset |-> IF value THEN bitset \cup {bitset_position}
                         ELSE bitset \ {bitset_position},
              assert |-> FALSE, oob |-> FALSE]

\* The bitsets a read of a bitset slot past size() may yield
RawBitsets(r) == SUBSET (0..(Len(r.component_pools_) - 1))

\* The tail shared by emplace and remove: with `bitset` referring to id's slot of
\* the bitset store (ref), move id from its group to the group of the changed
\* bitset.  raw is the value a slot past size() holds.  [r, assert, oob]
migrate(r, C, id, ref, value, raw) ==
    LET bitset == IF ref.kind = "value" THEN ref.value ELSE raw
        rm     == remove_entity_from_group(r.enitity_groups_, bitset, id)
        sb     == set_bitset_bit(r, C, bitset, value)
        store  == IF ref.kind = "value"
                  THEN [r.component_bitsets_ EXCEPT !.dense_arr_[ref.slot] = sb.bitset]
                  ELSE r.component_bitsets_
    IN  [r |-> [r EXCEPT !.component_bitsets_ = store,
                         !.enitity_groups_ = add_entity_to_group(rm.groups, sb.bitset, id)],
         assert |-> sb.assert \/ ref.kind = "assert",
         oob |-> rm.oob \/ sb.oob \/ ref.kind = "oob"]

NoEffect(r) == [r |-> r, assert |-> FALSE, oob |-> FALSE]

\* registry::emplace<C>(id, component).  [r, assert, oob]
emplace(r, C, id, component, raw) ==
    IF id = null_entity THEN NoEffect(r)
    ELSE
    LET gp == get_component_pool(r, C, TRUE)
        p  == get_component_position(gp.r, C)
        st == set(gp.r.component_pools_[p + 1], id, component)
        r1 == [gp.r EXCEPT !.component_pools_[p + 1] = st.set]
        gb == get_component_bitset(r1, id, TRUE)
        mg == migrate(gb.r, C, id, gb.ref, TRUE, raw)
    IN  IF gp.assert THEN [r |-> r, assert |-> TRUE, oob |-> FALSE]
        ELSE [r |-> mg.r, assert |-> mg.assert, oob |-> st.oob \/ mg.oob]

\* registry::remove<C>(id).  [r, assert, oob]
registry_remove(r, C, id, raw) ==
    IF ~contains_entity(r, id) THEN NoEffect(r)
    ELSE
    LET gp == get_component_pool(r, C, TRUE)
        p  == get_component_position(gp.r, C)
        rm == remove(gp.r.component_pools_[p + 1], id)
        r1 == [gp.r EXCEPT !.component_pools_[p + 1] = rm.set]
        gb == get_component_bitset(r1, id, FALSE)
        mg == migrate(gb.r, C, id, gb.ref, FALSE, raw)
    IN  IF gp.assert THEN [r |-> r, assert |-> TRUE, oob |-> FALSE]
        ELSE [r |-> mg.r, assert |-> mg.assert, oob |-> rm.oob \/ mg.oob]

\* registry::remove_entity(id).  [r, assert, oob]
remove_entity(r, id, raw) ==
    IF ~contains_entity(r, id) THEN NoEffect(r)
    ELSE
    LET gb == get_component_bitset(r, id, TRUE)
        deleted_bitset == IF gb.ref.kind = "value" THEN gb.ref.value ELSE raw
        rb == remove(gb.r.component_bitsets_, id)
        rg == remove_entity_from_group(gb.r.enitity_groups_, deleted_bitset, id)
        n  == Len(r.component_pools_)
        \* component_pools_[i]->remove(id) for every set bit i
        rp == [i \in 1..n |-> IF (i - 1) \in deleted_bitset
                              THEN remove(r.component_pools_[i], id)
                              ELSE [set |-> r.component_pools_[i], oob |-> FALSE]]
    IN  [r |-> [gb.r EXCEPT !.component_bitsets_ = rb.set,
                            !.available_entity_ids_ = Append(@, id),
                            !.enitity_groups_ = rg.groups,
                            !.component_pools_ = [i \in 1..n |-> rp[i].set]],
         assert |-> FALSE,
         oob |-> \/ gb.ref.kind = "oob" \/ rb.oob \/ rg.oob
                 \/ \E i \in 1..n : rp[i].oob
                 \/ \E i \in deleted_bitset : i >= n]

\* registry::get<C>(id): [kind |-> "assert"], [kind |-> "oob"] or the value
get(r, C, id) ==
    IF get_component_position(r, C) = tombstone THEN [kind |-> "assert"]
    ELSE IF ~contains_entity(r, id) THEN [kind |-> "assert"]
    ELSE subscript(r.component_pools_[get_component_position(r, C) + 1], id)

\* [mask, assert]: the mask of a list of component types
get_component_bitset_mask(r, Cs) ==
    [mask   |-> {get_component_position(r, Cs[i]) : i \in DOMAIN Cs} \ {tombstone},
     assert |-> \E i \in DOMAIN Cs : get_component_position(r, Cs[i]) = tombstone]

\* registry::view<Cs...>(): the result vector.  The groups are visited in the
\* hash map's order, which is unspecified, so the result is given as a function
\* from the place <<group key, dense index>> an entry comes from to the entry:
\* [id, components], components[i] being get<Cs[i]>(id).
view(r, Cs) ==
    LET target_mask == get_component_bitset_mask(r, Cs).mask
        matching == {mask \in DOMAIN r.enitity_groups_ : (mask \cap target_mask) = target_mask}
        places == UNION {{<<mask, k>> : k \in 1..Len(data(r.enitity_groups_[mask]))} :
                         mask \in matching}
    IN  [pl \in places |->
            LET id == data(r.enitity_groups_[pl[1]])[pl[2]]
            IN  [id |-> id, components |-> [i \in DOMAIN Cs |-> get(r, Cs[i], id)]]]

\* view<Cs...>() ends in LAMECS_ASSERT's abort
view_asserts(r, Cs) ==
    \/ get_component_bitset_mask(r, Cs).assert
    \/ \E pl \in DOMAIN view(r, Cs) : \E i \in DOMAIN Cs :
          view(r, Cs)[pl].components[i].kind = "assert"

\* ------------------------------------------------------------ the calls
\* The state after registry(): the constructor generates the first chunk.
Init ==
    LET r0 == [available_entity_ids_    |-> <<>>,
               entity_limit_            |-> 0,
               component_bit_positions_ |-> [C \in ComponentTypes |-> tombstone],
               component_pools_         |-> <<>>,
               enitity_groups_          |-> <<>>,
               component_bitsets_       |-> sparse_set]
        r1 == generate_available_entity_chuck(r0).r
    IN  /\ available_entity_ids_ = r1.available_entity_ids_
        /\ entity_limit_ = r1.entity_limit_
        /\ component_bit_positions_ = r1.component_bit_positions_
        /\ component_pools_ = r1.component_pools_
        /\ enitity_groups_ = r1.enitity_groups_
        /\ component_bitsets_ = r1.component_bitsets_
        /\ status = "running"
        /\ alive = {}
        /\ issued = <<>>
        /\ held = [id \in EntityIds |-> [C \in Components |-> "none"]]
        /\ calls = 0
        /\ pc = 18
        /\ sset = sparse_set
        /\ shadow = [id \in EntityIds |-> "absent"]

Store(r) ==
    /\ available_entity_ids_' = r.available_entity_ids_
    /\ entity_limit_' = r.entity_limit_
    /\ component_bit_positions_' = r.component_bit_positions_
    /\ component_pools_' = r.component_pools_
    /\ enitity_groups_' = r.enitity_groups_
    /\ component_bitsets_' = r.component_bitsets_

Unchanged == UNCHANGED <<available_entity_ids_, entity_limit_, component_bit_positions_,
                         component_pools_, enitity_groups_, component_bitsets_>>

\* a registry call leaves the sparse set that is used on its own alone
SetUnchanged == UNCHANGED <<sset, shadow>>

\* How a call can end: LAMECS_ASSERT aborts; an out-of-range access traps or
\* goes on in the reserved storage.
Outcomes(res) ==
    IF res.assert THEN {"aborted"}
    ELSE IF res.oob THEN {"trapped", "running"}
    ELSE {"running"}

CanCall == status = "running"

CreateEntity ==
    /\ CanCall
    /\ LET res == create_entity(registry)
       IN  /\ Store(res.r)
           /\ alive' = IF res.ret = null_entity THEN alive ELSE alive \cup {res.ret}
           /\ issued' = Append(issued, res.ret)
    /\ calls' = calls + 1
    /\ UNCHANGED <<status, held>>
    /\ SetUnchanged

EmplaceCall(C, id, component) ==
    /\ CanCall
    /\ \E raw \in RawBitsets(registry) :
          LET res == emplace(registry, C, id, component, raw)
          IN  \E o \in Outcomes(res) :
                 /\ status' = o
                 /\ IF o = "running"
                    THEN /\ Store(res.r)
                         /\ held' = IF id \in EntityIds
                                    THEN [held EXCEPT ![id][C] = component]
                                    ELSE held
                    ELSE Unchanged /\ UNCHANGED held
    /\ calls' = calls + 1
    /\ UNCHANGED <<alive, issued>>
    /\ SetUnchanged

RemoveCall(C, id) ==
    /\ CanCall
    /\ \E raw \in RawBitsets(registry) :
          LET res == registry_remove(registry, C, id, raw)
          IN  \E o \in Outcomes(res) :
                 /\ status' = o
                 /\ IF o = "running"
                    THEN /\ Store(res.r)
                         /\ held' = IF id \in EntityIds
                                    THEN [held EXCEPT ![id][C] =
                                             IF id \in alive THEN "removed" ELSE "none"]
                                    ELSE held
                    ELSE Unchanged /\ UNCHANGED held
    /\ calls' = calls + 1
    /\ UNCHANGED <<alive, issued>>
    /\ SetUnchanged

RemoveEntityCall(id) ==
    /\ CanCall
    /\ \E raw \in RawBitsets(registry) :
          LET res == remove_entity(registry, id, raw)
          IN  \E o \in Outcomes(res) :
                 /\ status' = o
                 /\ IF o = "running"
                    THEN /\ Store(res.r)
                         /\ alive' = alive \ {id}
                         /\ held' = IF id \in EntityIds
                                    THEN [held EXCEPT ![id] = [C \in Components |-> "none"]]
                                    ELSE held
                    ELSE Unchanged /\ UNCHANGED <<alive, held>>
    /\ calls' = calls + 1
    /\ UNCHANGED issued
    /\ SetUnchanged

\* Any caller: every id may be passed, alive or not.
Create == calls < MaxCalls /\ UNCHANGED pc /\ CreateEntity

Emplace ==
    /\ calls < MaxCalls /\ UNCHANGED pc
    /\ \E C \in Components, id \in CallIds, component \in Values : EmplaceCall(C, id, component)

Remove ==
    /\ calls < MaxCalls /\ UNCHANGED pc
    /\ \E C \in Components, id \in CallIds : RemoveCall(C, id)

RemoveEntity ==
    /\ calls < MaxCalls /\ UNCHANGED pc
    /\ \E id \in CallIds : RemoveEntityCall(id)

Next == Create \/ Emplace \/ Remove \/ RemoveEntity

Spec == Init /\ [][Next]_vars

\* A caller that passes only the ids it holds: those create_entity returned
\* and it has not passed to remove_entity since.
CreateAlive == calls < MaxAliveCalls /\ UNCHANGED pc /\ CreateEntity

EmplaceAlive ==
    /\ calls < MaxAliveCalls /\ UNCHANGED pc
    /\ \E C \in Components, id \in alive, component \in Values : EmplaceCall(C, id, component)

RemoveAlive ==
    /\ calls < MaxAliveCalls /\ UNCHANGED pc
    /\ \E C \in Components, id \in alive : RemoveCall(C, id)

RemoveEntityAlive ==
    /\ calls < MaxAliveCalls /\ UNCHANGED pc
    /\ \E id \in alive : RemoveEntityCall(id)

NextAlive == CreateAlive \/ EmplaceAlive \/ RemoveAlive \/ RemoveEntityAlive

SpecAlive == Init /\ [][NextAlive]_vars

\* ------------------------------------------------------------ a sparse set on its own
\* sset.set(id, item): an out-of-range slot traps, or is written in the reserved
\* storage, which leaves the live elements alone.
SetCall(id, item) ==
    /\ CanCall
    /\ LET res == set(sset, id, item)
       IN  \E o \in Outcomes([assert |-> FALSE, oob |-> res.oob]) :
              /\ status' = o
              /\ IF o = "running"
                 THEN sset' = res.set /\ shadow' = [shadow EXCEPT ![id] = item]
                 ELSE UNCHANGED <<sset, shadow>>
    /\ calls' = calls + 1
    /\ Unchanged
    /\ UNCHANGED <<alive, issued, held, pc>>

\* sset.remove(id)
SetRemoveCall(id) ==
    /\ CanCall
    /\ LET res == remove(sset, id)
       IN  \E o \in Outcomes([assert |-> FALSE, oob |-> res.oob]) :
              /\ status' = o
              /\ IF o = "running"
                 THEN sset' = res.set /\ shadow' = [shadow EXCEPT ![id] = "absent"]
                 ELSE UNCHANGED <<sset, shadow>>
    /\ calls' = calls + 1
    /\ Unchanged
    /\ UNCHANGED <<alive, issued, held, pc>>

SetSet ==
    /\ calls < MaxSetCalls
    /\ \E id \in EntityIds, item \in Values : SetCall(id, item)

SetRemove ==
    /\ calls < MaxSetCalls
    /\ \E id \in EntityIds : SetRemoveCall(id)

NextSet == SetSet \/ SetRemove

SpecSet == Init /\ [][NextSet]_vars

\* ------------------------------------------------------------ a caller that registers
\* registry.register_component<C>()
RegisterCall(C) ==
    /\ CanCall
    /\ LET res == register_component(registry, C)
       IN  \E o \in Outcomes([assert |-> res.assert, oob |-> FALSE]) :
              /\ status' = o
              /\ IF o = "running" THEN Store(res.r) ELSE Unchanged
    /\ calls' = calls + 1
    /\ UNCHANGED <<alive, issued, held>>
    /\ SetUnchanged

\* A caller that passes only the ids it holds and also registers component types.
RegisterR ==
    /\ calls < MaxRegisterCalls /\ UNCHANGED pc
    /\ \E C \in ComponentTypes : RegisterCall(C)

CreateR == calls < MaxRegisterCalls /\ UNCHANGED pc /\ CreateEntity

EmplaceR ==
    /\ calls < MaxRegisterCalls /\ UNCHANGED pc
    /\ \E C \in Components, id \in alive, component \in Values : EmplaceCall(C, id, component)

RemoveR ==
    /\ calls < MaxRegisterCalls /\ UNCHANGED pc
    /\ \E C \in Components, id \in alive : RemoveCall(C, id)

RemoveEntityR ==
    /\ calls < MaxRegisterCalls /\ UNCHANGED pc
    /\ \E id \in alive : RemoveEntityCall(id)

NextRegister == RegisterR \/ CreateR \/ EmplaceR \/ RemoveR \/ RemoveEntityR

SpecRegister == Init /\ [][NextRegister]_vars

\* ------------------------------------------------------------ example.cpp
\* registry::get_entity<Cs...>(id): "assert", or the tuple of get<Cs[i]>(id)
get_entity(r, Cs, id) ==
    IF ~contains_entity(r, id) THEN [kind |-> "assert"]
    ELSE [kind |-> "tuple", components |-> [i \in DOMAIN Cs |-> get(r, Cs[i], id)]]

\* registry::each<Cs...>(func): the callback is invoked on what view lists
each(r, Cs) == view(r, Cs)

each_asserts(r, Cs) == view_asserts(r, Cs)

\* a read of the registry made an out-of-range access: some get<C>(id) of it did
ReadsOutOfRange(v) == \E pl \in DOMAIN v : \E i \in DOMAIN v[pl].components :
                          v[pl].components[i].kind = "oob"

\* main's statements, by their line of example.cpp, in the order they run;
\* pc is the line that runs next and 56 the return.
main == <<18, 19, 20, 23, 25, 26, 27, 28, 29, 32, 34, 37, 40, 45, 51, 56>>

Following(line) == main[(CHOOSE k \in DOMAIN main : main[k] = line) + 1]

e1 == issued[1]
e2 == issued[2]
e3 == issued[3]

\* the emplace statements: line -> the component type and the entity
emplaced(line) ==
    IF line = 25 THEN <<"pos", e1>> ELSE IF line = 26 THEN <<"pos", e2>>
    ELSE IF line = 27 THEN <<"vel", e1>> ELSE IF line = 28 THEN <<"vel", e2>>
    ELSE <<"vel", e3>>

\* a statement that only reads the registry
ReadStatement(assert, oob) ==
    /\ CanCall
    /\ status' \in Outcomes([assert |-> assert, oob |-> oob])
    /\ calls' = calls + 1
    /\ Unchanged
    /\ UNCHANGED <<alive, issued, held>>
    /\ SetUnchanged

\* lines 18-20
ExampleCreate == pc \in {18, 19, 20} /\ CreateEntity /\ pc' = Following(pc)

\* line 23
ExampleRegister == pc = 23 /\ RegisterCall("pos") /\ pc' = Following(pc)

\* lines 25-29; the component value is any of Values
ExampleEmplace ==
    /\ pc \in {25, 26, 27, 28, 29}
    /\ \E component \in Values : EmplaceCall(emplaced(pc)[1], emplaced(pc)[2], component)
    /\ pc' = Following(pc)

\* line 32
ExampleRemove == pc = 32 /\ RemoveCall("vel", e2) /\ pc' = Following(pc)

\* line 34
ExampleRemoveEntity == pc = 34 /\ RemoveEntityCall(e3) /\ pc' = Following(pc)

\* line 37
ExampleGetEntity ==
    /\ pc = 37
    /\ LET t == get_entity(registry, <<"pos", "vel">>, e1)
       IN  ReadStatement(t.kind = "assert" \/ \E i \in DOMAIN t.components :
                                                  t.components[i].kind = "assert",
                         t.kind = "tuple" /\ \E i \in DOMAIN t.components :
                                                  t.components[i].kind = "oob")
    /\ pc' = Following(pc)

\* lines 40 and 45
ExampleEach ==
    /\ pc \in {40, 45}
    /\ LET Cs == IF pc = 40 THEN <<"vel">> ELSE <<"vel", "pos">>
       IN  ReadStatement(each_asserts(registry, Cs), ReadsOutOfRange(each(registry, Cs)))
    /\ pc' = Following(pc)

\* line 51
ExampleView ==
    /\ pc = 51
    /\ ReadStatement(view_asserts(registry, <<"pos", "vel">>),
                     ReadsOutOfRange(view(registry, <<"pos", "vel">>)))
    /\ pc' = Following(pc)

NextExample ==
    \/ ExampleCreate \/ ExampleRegister \/ ExampleEmplace \/ ExampleRemove
    \/ ExampleRemoveEntity \/ ExampleGetEntity \/ ExampleEach \/ ExampleView

SpecExample == Init /\ [][NextExample]_vars

\* ------------------------------------------------------------ observations
Running == status = "running"

\* the places <<group key, dense index>> at which id is listed in the group table
GroupPlaces(id) ==
    UNION {{<<mask, k>> : k \in {j \in 1..Len(data(enitity_groups_[mask])) :
                                    data(enitity_groups_[mask])[j] = id}} :
           mask \in DOMAIN enitity_groups_}

GroupMembers == UNION {Range(data(enitity_groups_[mask])) : mask \in DOMAIN enitity_groups_}

\* id's entry of the bitset store, as operator[] finds it
StoredBitset(id) == subscript(component_bitsets_, id)

\* bit C of id's stored bitset is set
HasBit(id, C) ==
    /\ component_bit_positions_[C] # tombstone
    /\ StoredBitset(id).kind = "value"
    /\ component_bit_positions_[C] \in StoredBitset(id).value

PoolContains(C, id) ==
    /\ component_bit_positions_[C] # tombstone
    /\ contains(component_pools_[component_bit_positions_[C] + 1], id)

\* the lists of component types a view can be asked for
TypeLists == {<<"pos">>, <<"vel">>, <<"pos", "vel">>, <<"vel", "pos">>}

Registered(Cs) == \A i \in DOMAIN Cs : component_bit_positions_[Cs[i]] # tombstone

ViewIds(Cs) == {view(registry, Cs)[pl].id : pl \in DOMAIN view(registry, Cs)}

\* ------------------------------------------------------------ claims

\* C1: every alive entity is listed in exactly one group, whose key is the
\* entity's stored bitset, and the groups' members are exactly the alive entities.
C1_GroupInvariant ==
    Running =>
        /\ \A id \in alive :
              /\ Cardinality(GroupPlaces(id)) = 1
              /\ StoredBitset(id).kind = "value"
              /\ \A pl \in GroupPlaces(id) : pl[1] = StoredBitset(id).value
        /\ GroupMembers = alive

\* C2: get<T>(id) returns the value last emplaced for (id, T), as long as no
\* emplace<T>, remove<T> or remove_entity was made on id since.
C2_GetReturnsEmplaced ==
    Running =>
        \A id \in EntityIds, C \in Components :
            held[id][C] \in Values =>
                /\ get(registry, C, id).kind = "value"
                /\ get(registry, C, id).value = held[id][C]

\* C3: view<Cs...>() returns one tuple per alive entity whose bitset has every
\* bit of Cs, no other tuple, none twice, each with the entity's current values.
C3_ViewExact ==
    Running =>
        \A Cs \in TypeLists :
            Registered(Cs) =>
                LET v == view(registry, Cs)
                IN  /\ ~view_asserts(registry, Cs)
                    /\ \A p1, p2 \in DOMAIN v : v[p1].id = v[p2].id => p1 = p2
                    /\ ViewIds(Cs) = {id \in alive : \A i \in DOMAIN Cs : HasBit(id, Cs[i])}
                    /\ \A pl \in DOMAIN v : \A i \in DOMAIN Cs :
                          /\ v[pl].components[i].kind = "value"
                          /\ v[pl].id \in EntityIds
                          /\ v[pl].components[i].value = held[v[pl].id][Cs[i]]

\* C4: after remove<T>(id) on an alive entity and until the next emplace<T>(id),
\* id's bitset has T's bit cleared, T's pool does not contain id, and no view
\* asking for T lists id.
C4_RemovedStaysRemoved ==
    Running =>
        \A id \in alive, C \in Components :
            held[id][C] = "removed" =>
                /\ ~HasBit(id, C)
                /\ ~PoolContains(C, id)
                /\ \A Cs \in TypeLists :
                      (Registered(Cs) /\ C \in Range(Cs)) => id \notin ViewIds(Cs)

\* C5: the allocator queue never holds an alive id and never holds an id twice
\* (so create_entity never returns an id that is alive).
C5_QueueFreshAndDistinct ==
    /\ \A i \in DOMAIN available_entity_ids_ : available_entity_ids_[i] \notin alive
    /\ \A i, j \in DOMAIN available_entity_ids_ :
          available_entity_ids_[i] = available_entity_ids_[j] => i = j

\* a create_entity call is the step that lengthens issued; it returned Last(issued')
CreateReturned(id) == issued' # issued /\ Last(issued') = id

\* ids waiting in the queue that create_entity has returned before
PendingRecycled == SelectSeq(available_entity_ids_, LAMBDA id : id \in Range(issued))

\* C6 as stated: with a recycled id pending, create_entity returns the one recycled
\* earliest; it returns a never-issued id only when none is pending.
C6_RecycledFirst ==
    [][issued' # issued =>
          IF PendingRecycled # <<>>
          THEN Last(issued') = Head(PendingRecycled)
          ELSE Last(issued') = null_entity \/ Last(issued') \notin Range(issued)]_vars

\* C6 amended: the allocator is one first-in-first-out queue.  create_entity
\* returns the id at its front, whether fresh or recycled, and generates the next
\* chunk of fresh ids only when the queue is empty (null_entity when there is
\* none left); every other call leaves the queue alone or appends one id to it.
C6_SingleFifo ==
    [][IF issued' # issued
       THEN IF available_entity_ids_ # <<>>
            THEN /\ Last(issued') = Head(available_entity_ids_)
                 /\ available_entity_ids_' = Tail(available_entity_ids_)
                 /\ entity_limit_' = entity_limit_
            ELSE IF entity_limit_ < MAX_ENTITY_COUNT
            THEN /\ Last(issued') = entity_limit_
                 /\ entity_limit_' = Min(entity_limit_ + ENTITY_CHUNK_SIZE, MAX_ENTITY_COUNT)
                 /\ available_entity_ids_' =
                       [k \in 1..(entity_limit_' - entity_limit_ - 1) |-> entity_limit_ + k]
            ELSE /\ Last(issued') = null_entity
                 /\ available_entity_ids_' = <<>>
                 /\ entity_limit_' = entity_limit_
       ELSE /\ entity_limit_' = entity_limit_
            /\ \/ available_entity_ids_' = available_entity_ids_
               \/ \E id \in EntityIds : available_entity_ids_' = Append(available_entity_ids_, id)]_vars

\* C6 witness: create_entity has returned an id for the second time, after
\* returning a fresh id that was queued before it.
C6_Witness ==
    /\ Len(issued) >= 3
    /\ Last(issued) # null_entity
    /\ Last(issued) \in Range(Front(issued))
    /\ Last(issued) < issued[Len(issued) - 1]

\* C7: remove_entity(e) on an alive entity queues e's id behind the ids recycled
\* before it, so that further create_entity calls return it in that order.
C7_RemovedIdIsQueued ==
    [][\A id \in alive :
          id \notin alive' => available_entity_ids_' = Append(available_entity_ids_, id)]_vars

\* C8: emplace<T>, remove<T> and remove_entity with an id that is not alive do
\* not abort and change nothing.
C8_NotAliveIsNoOp ==
    [][\A id \in CallIds \ alive :
          (\/ \E C \in Components, component \in Values : EmplaceCall(C, id, component)
           \/ \E C \in Components : RemoveCall(C, id)
           \/ RemoveEntityCall(id))
          => (status' = "running" /\ Unchanged)]_vars

\* C9: after remove_entity(id) on an alive entity no pool, no group and not the
\* bitset store contains id, id was appended once to the queue, and the other
\* alive entities keep their bitsets, groups and component values.
C9_RemoveEntityClears ==
    [][\A id \in alive :
          id \notin alive' =>
              /\ \A C \in Components : ~PoolContains(C, id)'
              /\ id \notin GroupMembers'
              /\ ~contains_entity(registry, id)'
              /\ available_entity_ids_' = Append(available_entity_ids_, id)
              /\ \A other \in alive \ {id} :
                    /\ StoredBitset(other)' = StoredBitset(other)
                    /\ GroupPlaces(other)' = GroupPlaces(other)
                    /\ \A C \in Components :
                          component_bit_positions_[C] # tombstone =>
                              get(registry, C, other)' = get(registry, C, other)]_vars

\* C10: right after create_entity returns an id, the id has a stored, empty
\* bitset and is listed in the group of the empty bitset.
C10_CreatedIsStored ==
    [][\A id \in EntityIds :
          CreateReturned(id) =>
              /\ contains_entity(registry, id)'
              /\ StoredBitset(id)'.kind = "value"
              /\ StoredBitset(id)'.value = {}
              /\ {} \in DOMAIN enitity_groups_'
              /\ id \in Range(data(enitity_groups_'[{}]))]_vars

\* the number of slots of data(s) that hold item
Count(s, item) == Cardinality({k \in 1..Len(data(s)) : data(s)[k] = item})

\* C11: after any sequence of set and remove calls on one sparse set, data()
\* holds exactly the values last set for the ids that are present (last call on
\* the id was set): as many slots as present ids, and each value as often as
\* present ids were last set to it.
C11_DataIsPresentValues ==
    Running =>
        /\ Len(data(sset)) = Cardinality({id \in EntityIds : shadow[id] # "absent"})
        /\ \A item \in Values :
              Count(sset, item) = Cardinality({id \in EntityIds : shadow[id] = item})

\* the component types that have a bit position
RegisteredTypes == {T \in ComponentTypes : component_bit_positions_[T] # tombstone}

\* C12: the bit position of a component type, once assigned, is changed by no
\* later call, a further register_component of the type included.
C12_PositionIsStable ==
    [][\A T \in RegisteredTypes :
          component_bit_positions_'[T] = component_bit_positions_[T]]_vars

\* C13: at most MAX_COMPONENT_COUNT component types are ever registered, and
\* every assigned bit position is in [0, MAX_COMPONENT_COUNT).
C13_ComponentLimit ==
    /\ Cardinality(RegisteredTypes) <= MAX_COMPONENT_COUNT
    /\ \A T \in RegisteredTypes :
          component_bit_positions_[T] \in 0..(MAX_COMPONENT_COUNT - 1)

\* C14: create_entity returns null_entity, changing nothing and without abort,
\* when every one of the MAX_ENTITY_COUNT ids is in use (issued, and not handed
\* back by remove_entity since); in every other case it returns an id in
\* [0, MAX_ENTITY_COUNT); entity_limit_ never exceeds MAX_ENTITY_COUNT.
C14_ExhaustionOnlyWhenFull ==
    [][/\ entity_limit_' <= MAX_ENTITY_COUNT
       /\ issued' # issued =>
             IF alive = EntityIds
             THEN Last(issued') = null_entity /\ Unchanged /\ status' = "running"
             ELSE Last(issued') \in EntityIds]_vars

\* C15: the example sequence runs to its end without abort and without an
\* out-of-range access, and view<pos, vel>() then is the single tuple of e1 with
\* the pos and the vel emplaced on it.
C15_ExampleView ==
    /\ status = "running"
    /\ pc = 56 =>
          LET v == view(registry, <<"pos", "vel">>)
          IN  /\ Cardinality(DOMAIN v) = 1
              /\ \A pl \in DOMAIN v :
                    /\ v[pl].id = e1
                    /\ \A i \in 1..2 : v[pl].components[i].kind = "value"
                    /\ v[pl].components[1].value = held[e1]["pos"]
                    /\ v[pl].components[2].value = held[e1]["vel"]

\* C16: the group table holds no group with zero members: every key of the
\* table maps to a non-empty entity list.
C16_NoEmptyGroup ==
    \A mask \in DOMAIN enitity_groups_ : ~empty(enitity_groups_[mask])

\* C16 witness: components were emplaced, so that groups had members, and the
\* table is empty again: each group was erased when its last member left it.
C16_Witness ==
    /\ Running
    /\ Len(component_pools_) > 0
    /\ \E id \in EntityIds : id \in Range(issued) /\ id \notin alive
    /\ DOMAIN enitity_groups_ = {}

\* the ids that s contains: only ids of the allocated pages can be present
PresentIds(s) ==
    {id \in 0..(Len(s.sparse_arr_) * SPARSE_PAGINATION_CHUNK_SIZE - 1) : contains(s, id)}

\* the owner array of s holds no id twice, and the indirection entry of every
\* present id k is an index below the dense array's size whose owner is k
OwnerMatches(s) ==
    /\ \A i, j \in DOMAIN s.dense_to_sparse_arr_ :
          s.dense_to_sparse_arr_[i] = s.dense_to_sparse_arr_[j] => i = j
    /\ \A k \in PresentIds(s) :
          /\ get_dense_index(s, k) < Len(s.dense_arr_)
          /\ s.dense_to_sparse_arr_[get_dense_index(s, k) + 1] = k

\* C17: in every sparse set of the registry (the pools, the bitset store, the
\* groups' lists) the owner array holds no id twice, and the indirection entry
\* of every present id k is an index below the dense array's size whose slot of
\* the owner array holds k.
C17_OwnerMatches ==
    /\ \A i \in DOMAIN component_pools_ : OwnerMatches(component_pools_[i])
    /\ OwnerMatches(component_bitsets_)
    /\ \A mask \in DOMAIN enitity_groups_ : OwnerMatches(enitity_groups_[mask])

\* C18: remove(id) on a present id leaves id absent, shrinks the dense array by
\* one and changes the membership of no other id, each of which is still found
\* at a slot below the dense array's size; remove(id) on an absent id changes
\* nothing.
C18_RemoveOnlyTheId ==
    [][\A id \in EntityIds :
          (SetRemoveCall(id) /\ status' = "running") =>
              IF contains(sset, id)
              THEN /\ ~contains(sset', id)
                   /\ Len(data(sset')) = Len(data(sset)) - 1
                   /\ PresentIds(sset') = PresentIds(sset) \ {id}
                   /\ \A k \in PresentIds(sset') : get_dense_index(sset', k) < Len(data(sset'))
              ELSE sset' = sset]_vars

\* C19: for every entity with a stored bitset and every registered component
\* type T, T's bit of the entity's bitset is set if and only if T's pool
\* contains the entity's id.
C19_BitIffInPool ==
    \A id \in EntityIds, T \in RegisteredTypes :
        StoredBitset(id).kind = "value" =>
            ((component_bit_positions_[T] \in StoredBitset(id).value)
                 <=> contains(component_pools_[component_bit_positions_[T] + 1], id))

\* C20: no registry call makes a sparse set use an index at or past the size of
\* dense_arr_ / dense_to_sparse_arr_ (in set, remove or operator[]): the trap
\* that such an access may end in is never reached.
C20_IndexInRange == status # "trapped"

=============================================================================
